---- MODULE Spec2Model ----
(***************************************************************************)
(* Model of ecommerce.py: a Streamlit dashboard that loads ecommerce.csv,  *)
(* filters it through sidebar widgets, computes six KPIs and builds a      *)
(* fixed catalogue of charts.  One script run (main) is one step; every    *)
(* user interaction changes one widget value and re-runs main.             *)
(***************************************************************************)
EXTENDS Integers, Sequences, FiniteSets

VARIABLES
    file,          \* ecommerce.csv on disk: [exists, columns, rows]
    cache,         \* st.cache_data entry of load_ecommerce_data: [filled, df]
    df,            \* main's df in the last run: [loaded, columns, rows]
    sel,           \* widget values kept by the session
    widgets,       \* the widgets the last run rendered
    filtered_df,   \* main's filtered_df in the last run
    kpis,          \* calculate_kpis(filtered_df) of the last run
    rendered,      \* the elements the last run put on the page
    charts,        \* the charts create_visualizations built in the last run
    raised,        \* the exception that ended the last run, or "none"
    read_csv_calls,\* pd.read_csv calls made by the last run
    exports        \* what the last run reports and offers for download

vars == <<file, cache, df, sel, widgets, filtered_df, kpis, rendered, charts,
          raised, read_csv_calls, exports>>

----------------------------------------------------------------------------
(* Bounds of the model *)

MaxRows == 2
MaxChanged == 2
ChartGroups == 11

(* Program constants *)

TopN == 10
DefaultMinReview == 1
DefaultMaxReview == 5

----------------------------------------------------------------------------
(* Tables.  A cell of a text column is a string, a cell of a numeric column *)
(* an integer; a missing cell (pandas NaN) is NaNStr resp. NaN.             *)

NaN == -1
NaNStr == "nan"

FilterColumns ==
    {"order_month", "product_category_name_english", "customer_state",
     "review_score", "payment_type"}

Columns ==
    FilterColumns \cup
    {"total_order_value", "freight_value", "price", "customer_unique_id",
     "delivery_days", "estimated_days", "delivery_delay"}

NoTable == [columns |-> {}, rows |-> <<>>]

\* Body applied to the value of v, with v computed once
With(v, Body(_)) == CHOOSE r \in {Body(x) : x \in {v}} : TRUE

Restrict(r, cols) == [c \in cols |-> r[c]]

\* the table without column c (the same file written without that column)
DropColumn(t, c) ==
    [columns |-> t.columns \ {c},
     rows |-> [i \in 1..Len(t.rows) |-> Restrict(t.rows[i], t.columns \ {c})]]

RECURSIVE SumSeq(_)
SumSeq(s) == IF s = <<>> THEN 0 ELSE Head(s) + SumSeq(Tail(s))

SetMin(S) == CHOOSE x \in S : \A y \in S : x <= y

SetMax(S) == CHOOSE x \in S : \A y \in S : x >= y

\* df[c] as the sequence of its cells
ColumnCells(t, c) == [i \in 1..Len(t.rows) |-> t.rows[i][c]]

\* df[c].unique().tolist() as a set
Unique(t, c) == {t.rows[i][c] : i \in 1..Len(t.rows)}

\* the non-missing cells of a numeric column (pandas skips NaN in min, max,
\* sum, mean and nunique)
Present(cells) == SelectSeq(cells, LAMBDA v : v # NaN)

----------------------------------------------------------------------------
(* load_ecommerce_data, with the st.cache_data memo around it *)

\* pd.read_csv('ecommerce.csv'): the table, or FileNotFoundError -> None
read_csv(f) ==
    IF f.exists
    THEN [loaded |-> TRUE, columns |-> f.columns, rows |-> f.rows]
    ELSE [loaded |-> FALSE, columns |-> {}, rows |-> <<>>]

\* One call of the memoized loader: [df, cache, calls, error_shown].  The
\* st.error of the except branch is replayed by the memo on a cache hit.
load_ecommerce_data(f, c) ==
    IF c.filled
    THEN [df |-> c.df, cache |-> c, calls |-> 0, error_shown |-> ~c.df.loaded]
    ELSE LET d == read_csv(f)
         IN  [df |-> d, cache |-> [filled |-> TRUE, df |-> d], calls |-> 1,
              error_shown |-> ~d.loaded]

----------------------------------------------------------------------------
(* apply_filters: the sidebar widgets *)

\* sorted(df[c].unique().tolist()) compares a float NaN with a str as soon
\* as the column holds a missing cell and a text cell: TypeError
SortRaises(t, c) ==
    c \in t.columns /\ NaNStr \in Unique(t, c) /\ Unique(t, c) # {NaNStr}

\* ['All'] + sorted(df[c].unique().tolist()) if c in df.columns else ['All']
\* (the order of the options does not reach the selection, a set here)
Options(t, c) ==
    IF c \in t.columns THEN {"All"} \cup Unique(t, c) ELSE {"All"}

\* int(df['review_score'].min()) of a column with no score at all (no rows,
\* or only missing cells) is int(nan): ValueError
SliderRaises(t) ==
    "review_score" \in t.columns
    /\ Present(ColumnCells(t, "review_score")) = <<>>

\* the slider's bounds: int(min), int(max) of the observed scores
SliderBounds(t) ==
    <<SetMin(Unique(t, "review_score") \ {NaN}),
      SetMax(Unique(t, "review_score") \ {NaN})>>

\* the slider's values: every (lo, hi) inside its bounds
RangesWithin(b) == {p \in (b[1]..b[2]) \X (b[1]..b[2]) : p[1] <= p[2]}
SliderValues(t) == RangesWithin(SliderBounds(t))

\* The widgets in the order the script creates them, each with the line
\* that can raise while building it.
WidgetOrder == <<"months", "category", "states", "review", "payment">>

WidgetRaises(t, w) ==
    CASE w = "months"   -> SortRaises(t, "order_month")
      [] w = "category" -> SortRaises(t, "product_category_name_english")
      [] w = "states"   -> SortRaises(t, "customer_state")
      [] w = "review"   -> SliderRaises(t)
      [] w = "payment"  -> SortRaises(t, "payment_type")

\* index of the first widget whose construction raises, 0 when none does
FirstRaising(t) ==
    IF \A i \in 1..Len(WidgetOrder) : ~WidgetRaises(t, WidgetOrder[i]) THEN 0
    ELSE SetMin({i \in 1..Len(WidgetOrder) : WidgetRaises(t, WidgetOrder[i])})

ErrorOfWidget(k) ==
    IF k = 0 THEN "none"
    ELSE IF WidgetOrder[k] = "review" THEN "ValueError" ELSE "TypeError"
WidgetError(t) == ErrorOfWidget(FirstRaising(t))

\* the widgets created before the script stops; the slider exists only when
\* the table has a review_score column (line 51)
WidgetsBefore(t, k) ==
    {WidgetOrder[i] : i \in 1..(IF k = 0 THEN Len(WidgetOrder) ELSE k - 1)} \
    (IF "review_score" \in t.columns THEN {} ELSE {"review"})
WidgetsBuilt(t) == WidgetsBefore(t, FirstRaising(t))

\* the values a fresh session gives the widgets (default=['All'], the full
\* slider range, the select box's first option, an unticked check box)
DefaultSel(t) ==
    [months |-> {"All"}, category |-> {"All"}, states |-> {"All"},
     review |-> IF "review_score" \in t.columns /\ ~SliderRaises(t)
                THEN SliderBounds(t)
                ELSE <<DefaultMinReview, DefaultMaxReview>>,
     payment |-> "All", raw |-> FALSE]

----------------------------------------------------------------------------
(* apply_filters: the predicates (lines 59-76) *)

\* filtered_df = filtered_df[mask over column c]; KeyError when the frame
\* has no column c
FilterBy(frame, c, Keep(_)) ==
    With(frame, LAMBDA fr :
        IF fr.raised # "none" THEN fr
        ELSE IF c \notin fr.columns THEN [fr EXCEPT !.raised = "KeyError"]
        ELSE [fr EXCEPT !.rows = SelectSeq(fr.rows, Keep)])

\* selected != ['All']: a list holding 'All' and more would filter
NotAllExact(selected) == selected # {"All"}
\* 'All' not in selected
NotAll(selected) == "All" \notin selected

\* (review_score >= min_review) & (review_score <= max_review); a missing
\* score compares False on both sides
InRange(r, lo, hi) ==
    r["review_score"] # NaN /\ r["review_score"] >= lo /\ r["review_score"] <= hi

MultiStep(fr, t, c, selected) ==
    IF c \in t.columns /\ NotAll(selected)
    THEN FilterBy(fr, c, LAMBDA r : r[c] \in selected)
    ELSE fr

\* a range taken against the scores of the frame being filtered, not
\* against the slider's values: the lowest score left is dropped each time
ReviewStepRelative(frame, t, range) ==
    With(frame, LAMBDA fr :
        IF "review_score" \in t.columns
        THEN FilterBy(fr, "review_score",
                      LAMBDA r : r["review_score"] # NaN
                                 /\ r["review_score"] <= range[2]
                                 /\ \E i \in 1..Len(fr.rows) :
                                       /\ fr.rows[i]["review_score"] # NaN
                                       /\ fr.rows[i]["review_score"] < r["review_score"])
        ELSE fr)
\* lines 70-71: the range predicate, whenever the column exists
ReviewStep(fr, t, range) ==
    IF "review_score" \in t.columns
    THEN FilterBy(fr, "review_score",
                  LAMBDA r : InRange(r, range[1], range[2]))
    ELSE fr

PaymentStep(fr, t, selected) ==
    IF "payment_type" \in t.columns /\ selected # "All"
    THEN FilterBy(fr, "payment_type", LAMBDA r : r["payment_type"] = selected)
    ELSE fr

\* lines 59-76: df.copy(), then the five guarded predicates in turn
FilterRows(t, s) ==
    LET f0 == [columns |-> t.columns, rows |-> t.rows, raised |-> "none"]
        f1 == MultiStep(f0, t, "order_month", s.months)
        f2 == MultiStep(f1, t, "product_category_name_english", s.category)
        f3 == MultiStep(f2, t, "customer_state", s.states)
        f4 == ReviewStep(f3, t, s.review)
        f5 == PaymentStep(f4, t, s.payment)
    IN  f5

\* apply_filters(df) with the session's widget values s: the widgets are
\* built first, and a raise there ends the call before any row is filtered.
\* source is df as the call leaves it.
FilterOutcome(t, s, err) ==
    IF err = "none" THEN FilterRows(t, s)
    ELSE [columns |-> t.columns, rows |-> <<>>, raised |-> err]

\* the return without the df.copy() of line 59: the predicates would drop
\* the rows from the table the caller holds
ReturnInPlace(t, frame, ws) ==
    With(frame, LAMBDA f :
        [raised |-> f.raised, widgets |-> ws,
         filtered_df |-> [columns |-> f.columns, rows |-> f.rows],
         source |-> IF f.raised = "none"
                    THEN [columns |-> f.columns, rows |-> f.rows]
                    ELSE [columns |-> t.columns, rows |-> t.rows]])
\* line 76: the copy of line 59 is returned, df is as it was
Return(t, frame, ws) ==
    With(frame, LAMBDA f :
        [raised |-> f.raised, widgets |-> ws,
         filtered_df |-> [columns |-> f.columns, rows |-> f.rows],
         source |-> [columns |-> t.columns, rows |-> t.rows]])

apply_filters(t, s) ==
    Return(t, FilterOutcome(t, s, WidgetError(t)), WidgetsBuilt(t))

----------------------------------------------------------------------------
(* calculate_kpis *)

\* A metric value: an exact number n/d, NaN (the mean of no value), or the
\* KeyError of reading an absent column.
Num(n, d) == [kind |-> "num", n |-> n, d |-> d]
Zero == Num(0, 1)
NaNValue == [kind |-> "nan", n |-> 0, d |-> 1]
KeyErrorValue == [kind |-> "KeyError", n |-> 0, d |-> 1]

\* df[c].sum(): missing cells are skipped, the sum of nothing is 0
ColSum(t, c) ==
    IF c \notin t.columns THEN KeyErrorValue
    ELSE Num(SumSeq(Present(ColumnCells(t, c))), 1)

\* df[c].mean(): missing cells are skipped, the mean of nothing is NaN
ColMean(t, c) ==
    IF c \notin t.columns THEN KeyErrorValue
    ELSE LET p == Present(ColumnCells(t, c))
         IN  IF p = <<>> THEN NaNValue ELSE Num(SumSeq(p), Len(p))

\* df[c].nunique(): distinct non-missing cells
ColNunique(t, c) ==
    IF c \notin t.columns THEN KeyErrorValue
    ELSE Num(Cardinality(Unique(t, c) \ {NaNStr}), 1)

KpiNames ==
    {"total_orders", "total_revenue", "avg_rating", "avg_freight_cost",
     "total_customers", "avg_price"}

\* the column each metric is computed from (total_orders is len(df))
KpiColumn(k) ==
    CASE k = "total_revenue"    -> "total_order_value"
      [] k = "avg_rating"       -> "review_score"
      [] k = "avg_freight_cost" -> "freight_value"
      [] k = "total_customers"  -> "customer_unique_id"
      [] k = "avg_price"        -> "price"

\* lines 82-89, the dictionary of a table with at least one row
KpisOfRows(t) ==
    [total_orders |-> Num(Len(t.rows), 1),
     total_revenue |-> IF "total_order_value" \in t.columns
                       THEN ColSum(t, "total_order_value") ELSE Zero,
     avg_rating |-> IF "review_score" \in t.columns
                    THEN ColMean(t, "review_score") ELSE Zero,
     avg_freight_cost |-> IF "freight_value" \in t.columns
                          THEN ColMean(t, "freight_value") ELSE Zero,
     total_customers |-> IF "customer_unique_id" \in t.columns
                         THEN ColNunique(t, "customer_unique_id") ELSE Zero,
     avg_price |-> IF "price" \in t.columns
                   THEN ColMean(t, "price") ELSE Zero]

\* the aggregates without the zero-length guard of lines 79-80
calculate_kpis_unguarded(t) == KpisOfRows(t)
\* lines 78-89
calculate_kpis(t) ==
    IF Len(t.rows) = 0 THEN [k \in KpiNames |-> Zero] ELSE KpisOfRows(t)

KpisRaise(k) == \E m \in KpiNames : k[m].kind = "KeyError"

----------------------------------------------------------------------------
(* create_visualizations *)

\* Group labels in lexicographic order: groupby sorts its keys, and a sort
\* by value keeps equal values in key order.
GroupKeys ==
    <<"AC", "AL", "AM", "BA", "CE", "DF", "ES", "GO", "MA", "MG", "PA", "PR",
      "RJ", "SP", "auto", "baby", "books", "garden", "health", "music",
      "pets", "sports", "tools", "toys", "watches", "wine">>

KeyIndex(k) == CHOOSE i \in 1..Len(GroupKeys) : GroupKeys[i] = k

\* a series (set of <<key, value>> with distinct keys) as the sequence that
\* Before orders
SortSeries(series, Before(_, _)) ==
    With(series, LAMBDA S :
        With([e \in S |-> Cardinality({x \in S : Before(x, e)})], LAMBDA rank :
            [i \in 1..Cardinality(S) |-> CHOOSE e \in S : rank[e] = i - 1]))

Ascending(a, b) ==
    a[2] < b[2] \/ (a[2] = b[2] /\ KeyIndex(a[1]) < KeyIndex(b[1]))
Descending(a, b) ==
    a[2] > b[2] \/ (a[2] = b[2] /\ KeyIndex(a[1]) < KeyIndex(b[1]))

\* .head(n)
HeadN(sorted, n) ==
    With(sorted, LAMBDA s : SubSeq(s, 1, IF Len(s) < n THEN Len(s) ELSE n))

\* df.groupby(key)[val].sum(): one entry per non-missing key
Project(rows, val) == [i \in 1..Len(rows) |-> rows[i][val]]

GroupSum(t, key, val) ==
    {<<k, SumSeq(Present(Project(SelectSeq(t.rows, LAMBDA r : r[key] = k), val)))>>
       : k \in Unique(t, key) \ {NaNStr}}

\* df[key].value_counts() as a series: count per non-missing label
ValueCounts(t, key) ==
    {<<k, Len(SelectSeq(t.rows, LAMBDA r : r[key] = k))>>
       : k \in Unique(t, key) \ {NaNStr}}

\* line 123: .sum().sort_values(ascending=True).head(10)
StateSales(t) ==
    HeadN(SortSeries(GroupSum(t, "customer_state", "total_order_value"), Ascending),
          TopN)

\* line 132: value_counts().head(10).sort_values(ascending=True)
Range(s) == {s[i] : i \in 1..Len(s)}

TopCategories(t) ==
    SortSeries(Range(HeadN(SortSeries(ValueCounts(t, "product_category_name_english"),
                                      Descending), TopN)),
               Ascending)

ChartTitles ==
    {"Total Monthly Sales Over Time", "Top 10 States by Sales",
     "Top 10 Product Categories by Count", "Distribution of Product Prices",
     "Freight Cost vs Product Price", "Delivery Time by Review Score",
     "Top 10 States by Avg Delivery Time",
     "Delivery Delay vs. Estimated Delivery Time",
     "Payment Method Distribution", "Avg Review Score by Payment Type"}

\* the columns each chart's body reads
ChartReads(title) ==
    CASE title = "Total Monthly Sales Over Time" -> {"order_month", "total_order_value"}
      [] title = "Top 10 States by Sales" -> {"customer_state", "total_order_value"}
      [] title = "Top 10 Product Categories by Count" -> {"product_category_name_english"}
      [] title = "Distribution of Product Prices" -> {"price"}
      [] title = "Freight Cost vs Product Price" -> {"price", "freight_value"}
      [] title = "Delivery Time by Review Score" -> {"review_score", "delivery_days"}
      [] title = "Top 10 States by Avg Delivery Time" -> {"customer_state", "delivery_days"}
      [] title = "Delivery Delay vs. Estimated Delivery Time" -> {"estimated_days", "delivery_delay"}
      [] title = "Payment Method Distribution" -> {"payment_type"}
      [] title = "Avg Review Score by Payment Type" -> {"payment_type", "review_score"}

\* guards of which the last tests one of the two columns its body reads
ChartGuardLoose(title) ==
    IF title = "Avg Review Score by Payment Type" THEN {"payment_type"}
    ELSE ChartReads(title)
\* the columns each chart's `if` tests before its body runs
ChartGuard(title) ==
    CASE title = "Total Monthly Sales Over Time" -> {"order_month", "total_order_value"}
      [] title = "Top 10 States by Sales" -> {"customer_state", "total_order_value"}
      [] title = "Top 10 Product Categories by Count" -> {"product_category_name_english"}
      [] title = "Distribution of Product Prices" -> {"price"}
      [] title = "Freight Cost vs Product Price" -> {"price", "freight_value"}
      [] title = "Delivery Time by Review Score" -> {"review_score", "delivery_days"}
      [] title = "Top 10 States by Avg Delivery Time" -> {"customer_state", "delivery_days"}
      [] title = "Delivery Delay vs. Estimated Delivery Time" -> {"estimated_days", "delivery_delay"}
      [] title = "Payment Method Distribution" -> {"payment_type"}
      [] title = "Avg Review Score by Payment Type" -> {"payment_type", "review_score"}

\* create_visualizations(df): the charts drawn, the two horizontal top-N
\* series, and the KeyError of a body that reads an absent column
Entered(t) == {c \in ChartTitles : ChartGuard(c) \subseteq t.columns}

Draw(t, entered, drawn) ==
    [raised |-> IF drawn = entered THEN "none" ELSE "KeyError",
     titles |-> drawn,
     state_sales |-> IF "Top 10 States by Sales" \in drawn
                     THEN StateSales(t) ELSE <<>>,
     top_categories |-> IF "Top 10 Product Categories by Count" \in drawn
                        THEN TopCategories(t) ELSE <<>>]

create_visualizations(t) ==
    With(Entered(t), LAMBDA entered :
        With({c \in entered : ChartReads(c) \subseteq t.columns}, LAMBDA drawn :
            Draw(t, entered, drawn)))

NoCharts == [raised |-> "none", titles |-> {}, state_sales |-> <<>>,
             top_categories |-> <<>>]

----------------------------------------------------------------------------
(* main: one run of the script *)

NoKpis == [k \in KpiNames |-> [kind |-> "none", n |-> 0, d |-> 1]]

WidgetElements(ws) ==
    {e \in {"w_months", "w_category", "w_states", "w_review", "w_payment"} :
        \/ e = "w_months" /\ "months" \in ws
        \/ e = "w_category" /\ "category" \in ws
        \/ e = "w_states" /\ "states" \in ws
        \/ e = "w_review" /\ "review" \in ws
        \/ e = "w_payment" /\ "payment" \in ws}

NoExports == [filtered |-> <<>>, full |-> <<>>, total |-> 0, shown |-> 0]

\* a run that goes on to the dataset information with no dataset
MainNotLoadedProceeds(ld, s) ==
    [df |-> NoTable, widgets |-> {}, filtered_df |-> NoTable, kpis |-> NoKpis,
     charts |-> NoCharts, raised |-> "none",
     rendered |-> {"header", "unable_error", "dataset_info"}
                  \cup (IF ld.error_shown THEN {"load_error"} ELSE {}),
     exports |-> NoExports]
\* lines 183-188 and 234: the run of a session whose dataset is None
MainNotLoaded(ld, s) ==
    [df |-> NoTable, widgets |-> {}, filtered_df |-> NoTable, kpis |-> NoKpis,
     charts |-> NoCharts, raised |-> "none",
     rendered |-> {"header", "unable_error"}
                  \cup (IF ld.error_shown THEN {"load_error"} ELSE {}),
     exports |-> NoExports]

\* lines 199-232, once the KPIs are displayed: the download buttons, the
\* raw-data check box, the charts or the warning, the dataset information
Page(af, s, k, some, cv, upToKpis, ex) ==
    [df |-> af.source, widgets |-> af.widgets \cup {"raw"},
     filtered_df |-> af.filtered_df, kpis |-> k, charts |-> cv,
     raised |-> cv.raised,
     rendered |->
        upToKpis \cup {"kpis", "dl_full", "w_raw"}
        \cup (IF some THEN {"dl_filtered"} ELSE {})
        \cup (IF s.raw THEN (IF some THEN {"raw_preview"} ELSE {"raw_info"})
              ELSE {})
        \cup (IF some THEN {"charts_section"} ELSE {"no_data_warning"})
        \cup (IF cv.raised = "none" THEN {"dataset_info", "footer"}
              ELSE {"exception"}),
     exports |-> ex]

\* lines 194-197: the success line and the KPIs
Summarize(af, s, k, some, upToKpis) ==
    IF KpisRaise(k)
    THEN [df |-> af.source, widgets |-> af.widgets,
          filtered_df |-> af.filtered_df, kpis |-> k, charts |-> NoCharts,
          raised |-> "KeyError", rendered |-> upToKpis \cup {"exception"},
          exports |-> [NoExports EXCEPT !.total = Len(af.source.rows),
                                        !.shown = Len(af.filtered_df.rows)]]
    ELSE With(IF some THEN create_visualizations(af.filtered_df) ELSE NoCharts,
              LAMBDA cv :
                Page(af, s, k, some, cv, upToKpis,
                     [filtered |-> IF some THEN af.filtered_df.rows ELSE <<>>,
                      full |-> af.source.rows, total |-> Len(af.source.rows),
                      shown |-> Len(af.filtered_df.rows)]))

\* line 193 onwards, given what apply_filters returned or raised
AfterFilters(af, s, upToFilters) ==
    IF af.raised # "none"
    THEN [df |-> af.source, widgets |-> af.widgets, filtered_df |-> NoTable,
          kpis |-> NoKpis, charts |-> NoCharts, raised |-> af.raised,
          rendered |-> upToFilters \cup {"exception"}, exports |-> NoExports]
    ELSE With(calculate_kpis(af.filtered_df), LAMBDA k :
              Summarize(af, s, k, Len(af.filtered_df.rows) > 0,
                        upToFilters \cup {"success"}))

\* lines 193-232: the run of a session whose dataset is loaded
MainLoaded(ld, s) ==
    With(apply_filters([columns |-> ld.df.columns, rows |-> ld.df.rows], s),
         LAMBDA af :
            AfterFilters(af, s, {"header", "sidebar_header"}
                                \cup WidgetElements(af.widgets)))

\* main() with the session's widget values s: what the loader returned
\* and what the run left
Main(f, c, s) ==
    With(load_ecommerce_data(f, c), LAMBDA ld :
        [ld |-> ld,
         r |-> IF ld.df.loaded THEN MainLoaded(ld, s) ELSE MainNotLoaded(ld, s)])

----------------------------------------------------------------------------
(* The files the model reads *)

Order(month, category, state, score, payment, value, customer) ==
    [order_month |-> month, product_category_name_english |-> category,
     customer_state |-> state, review_score |-> score, payment_type |-> payment,
     total_order_value |-> value, freight_value |-> 2, price |-> value - 2,
     customer_unique_id |-> customer, delivery_days |-> 7,
     estimated_days |-> 10, delivery_delay |-> 0]

\* an order, an order of another state, score and payment type, and an
\* order whose state and score are missing
RowPool ==
    {Order("2018-01", "toys", "SP", 5, "credit_card", 30, "u1"),
     Order("2018-01", "toys", "RJ", 4, "voucher", 12, "u1"),
     Order("2018-01", "toys", NaNStr, NaN, "credit_card", 8, "u2")}

RECURSIVE RowLists(_)
RowLists(n) ==
    IF n = 0 THEN {<<>>}
    ELSE LET shorter == RowLists(n - 1)
         IN  shorter \cup {Append(l, r) : l \in shorter, r \in RowPool}

\* every column, or every column but one
ColumnSets == {Columns} \cup {Columns \ {c} : c \in Columns}

FileOf(cols, rows) ==
    [exists |-> TRUE, columns |-> cols,
     rows |-> [i \in 1..Len(rows) |-> Restrict(rows[i], cols)]]

MissingFile == [exists |-> FALSE, columns |-> {}, rows |-> <<>>]

Files ==
    {MissingFile} \cup {FileOf(cols, rows) : cols \in ColumnSets,
                                             rows \in RowLists(MaxRows)}

----------------------------------------------------------------------------
(* The session *)

InitWith(F) ==
    /\ file \in F
    /\ cache = [filled |-> FALSE, df |-> [loaded |-> FALSE, columns |-> {}, rows |-> <<>>]]
    /\ df = NoTable
    /\ sel = DefaultSel([columns |-> file.columns, rows |-> file.rows])
    /\ widgets = {}
    /\ filtered_df = NoTable
    /\ kpis = NoKpis
    /\ rendered = {}
    /\ charts = NoCharts
    /\ raised = "none"
    /\ read_csv_calls = 0
    /\ exports = NoExports

Init == InitWith(Files)

\* the widgets whose value differs from a fresh session's
Changed(t, s) ==
    {w \in {"months", "category", "states", "review", "payment", "raw"} :
        s[w] # DefaultSel(t)[w]}

\* the model follows sessions with at most MaxChanged widgets moved away
\* from their defaults at a time
WithinBounds(s) == Cardinality(Changed(df, s)) <= MaxChanged

\* one run of the script with widget values s
Run(s) ==
    \E m \in {Main(file, cache, s)} :
        /\ cache' = m.ld.cache
        /\ read_csv_calls' = m.ld.calls
        /\ sel' = s
        /\ df' = m.r.df
        /\ widgets' = m.r.widgets
        /\ filtered_df' = m.r.filtered_df
        /\ kpis' = m.r.kpis
        /\ charts' = m.r.charts
        /\ raised' = m.r.raised
        /\ rendered' = m.r.rendered
        /\ exports' = m.r.exports
        /\ UNCHANGED file

\* a multiselect changes by one option at a time: picked or removed
Toggle(S, o) == IF o \in S THEN S \ {o} ELSE S \cup {o}

\* the first run of the session: the memo is empty
FirstRun == ~cache.filled /\ Run(sel)

\* a re-run without a widget change (the browser's rerun)
Rerun == cache.filled /\ Run(sel)

SelectMonths ==
    /\ "months" \in widgets
    /\ \E o \in Options(df, "order_month") :
          /\ WithinBounds([sel EXCEPT !.months = Toggle(@, o)])
          /\ Run([sel EXCEPT !.months = Toggle(@, o)])

SelectCategory ==
    /\ "category" \in widgets
    /\ \E o \in Options(df, "product_category_name_english") :
          /\ WithinBounds([sel EXCEPT !.category = Toggle(@, o)])
          /\ Run([sel EXCEPT !.category = Toggle(@, o)])

SelectStates ==
    /\ "states" \in widgets
    /\ \E o \in Options(df, "customer_state") :
          /\ WithinBounds([sel EXCEPT !.states = Toggle(@, o)])
          /\ Run([sel EXCEPT !.states = Toggle(@, o)])

SlideReview ==
    /\ "review" \in widgets
    /\ \E p \in SliderValues(df) :
          /\ p # sel.review
          /\ WithinBounds([sel EXCEPT !.review = p])
          /\ Run([sel EXCEPT !.review = p])

SelectPayment ==
    /\ "payment" \in widgets
    /\ \E p \in Options(df, "payment_type") :
          /\ p # sel.payment
          /\ WithinBounds([sel EXCEPT !.payment = p])
          /\ Run([sel EXCEPT !.payment = p])

ToggleRawData ==
    /\ "raw" \in widgets
    /\ WithinBounds([sel EXCEPT !.raw = ~sel.raw])
    /\ Run([sel EXCEPT !.raw = ~sel.raw])

Next ==
    \/ FirstRun
    \/ Rerun
    \/ SelectMonths
    \/ SelectCategory
    \/ SelectStates
    \/ SlideReview
    \/ SelectPayment
    \/ ToggleRawData

Spec == Init /\ [][Next]_vars

----------------------------------------------------------------------------
(* Sessions on files with more groups than a top-N chart shows *)

\* order i of a chart file: its own state and category
GroupOrder(i, value, customer) ==
    Order("2018-01", GroupKeys[Len(GroupKeys) - i + 1], GroupKeys[i], 5,
          "credit_card", value, customer)

\* one order per group, and a further order of group extra when extra > 0
ChartRows(values, extra) ==
    [i \in 1..ChartGroups |-> GroupOrder(i, values[i], "u1")]
    \o (IF extra = 0 THEN <<>> ELSE <<GroupOrder(extra, 10, "u2")>>)

ChartFiles ==
    {FileOf(Columns, ChartRows(values, extra)) :
        values \in [1..ChartGroups -> {10, 20}], extra \in {0, 1, ChartGroups}}

InitCharts == InitWith(ChartFiles)

NextCharts ==
    \/ FirstRun
    \/ Rerun
    \/ ToggleRawData

SpecCharts == InitCharts /\ [][NextCharts]_vars

----------------------------------------------------------------------------
(* Properties of a run *)

\* the last run was a run of main with the dataset loaded
LoadedRun == rendered # {} /\ cache.filled /\ cache.df.loaded

\* the last run came back from apply_filters
Filtered == LoadedRun /\ raised = "none"

\* every selection unrestricted: the three lists are ['All'], the slider
\* spans the observed scores, the payment type is 'All'
Unrestricted(t, s) ==
    /\ s.months = {"All"}
    /\ s.category = {"All"}
    /\ s.states = {"All"}
    /\ s.payment = "All"
    /\ s.review = DefaultSel(t).review

\* C1: with every selection unrestricted, a call of apply_filters that
\* returns gives exactly the rows of the table it was given, whatever
\* columns and cells the table has.
C1_UnrestrictedReturnsTable ==
    (Filtered /\ Unrestricted(df, sel)) => filtered_df.rows = df.rows

\* The predicates C2 calls active, and the rows that satisfy all of them.
ListActive(t, c, selected) == c \in t.columns /\ "All" \notin selected
RangeActive(t, s) ==
    "review_score" \in t.columns /\ s.review # DefaultSel(t).review
PaymentActive(t, s) == "payment_type" \in t.columns /\ s.payment # "All"

Satisfies(t, s, r) ==
    /\ ListActive(t, "order_month", s.months) => r["order_month"] \in s.months
    /\ ListActive(t, "product_category_name_english", s.category)
          => r["product_category_name_english"] \in s.category
    /\ ListActive(t, "customer_state", s.states) => r["customer_state"] \in s.states
    /\ RangeActive(t, s) =>
          /\ r["review_score"] # NaN
          /\ r["review_score"] >= s.review[1]
          /\ r["review_score"] <= s.review[2]
    /\ PaymentActive(t, s) => r["payment_type"] = s.payment

\* C2: apply_filters returns exactly the rows that satisfy every active
\* predicate, a predicate being active when its column exists and its
\* selection is not the unrestricted one.
C2_ReturnsConjunction ==
    Filtered => filtered_df.rows = SelectSeq(df.rows, LAMBDA r : Satisfies(df, sel, r))

C4_EmptyTableAllZero ==
    ("kpis" \in rendered /\ Len(filtered_df.rows) = 0) =>
        \A k \in KpiNames : kpis[k] = Zero

\* the state filter emptied a table that has rows and a review_score column
C4_Witness ==
    /\ "kpis" \in rendered
    /\ Len(filtered_df.rows) = 0
    /\ Len(df.rows) > 0
    /\ "review_score" \in df.columns
    /\ "customer_state" \in df.columns
    /\ "All" \notin sel.states

\* What a table t without column c must give, from what t gives.
KpisWithout(k, c) ==
    [m \in KpiNames |-> IF m # "total_orders" /\ KpiColumn(m) = c THEN Zero ELSE k[m]]
TitlesWithout(titles, c) == {x \in titles : c \notin ChartReads(x)}
\* the rows of t that pass every predicate of apply_filters but those on
\* the columns in skip
PassesOthers(t, s, r, skip) ==
    /\ ("order_month" \in t.columns \ skip /\ "All" \notin s.months)
          => r["order_month"] \in s.months
    /\ ("product_category_name_english" \in t.columns \ skip /\ "All" \notin s.category)
          => r["product_category_name_english"] \in s.category
    /\ ("customer_state" \in t.columns \ skip /\ "All" \notin s.states)
          => r["customer_state"] \in s.states
    /\ ("review_score" \in t.columns \ skip)
          => /\ r["review_score"] # NaN
             /\ r["review_score"] >= s.review[1]
             /\ r["review_score"] <= s.review[2]
    /\ ("payment_type" \in t.columns \ skip /\ s.payment # "All")
          => r["payment_type"] = s.payment
RowsWithout(t, s, c) ==
    DropColumn([columns |-> t.columns,
                rows |-> SelectSeq(t.rows, LAMBDA r : PassesOthers(t, s, r, {c}))],
               c).rows

\* C5: no run reads an absent column (no KeyError), and a table without
\* one of its columns gives what the table gives except for what depends
\* on that column: that filter is skipped, that metric is 0, those charts
\* are left out.
C5_AbsentColumnDegrades ==
    /\ raised # "KeyError"
    /\ Filtered =>
          \A c \in df.columns :
             /\ With(FilterRows(DropColumn(df, c), sel),
                     LAMBDA f : /\ f.raised = "none"
                                /\ f.rows = RowsWithout(df, sel, c))
             /\ Len(filtered_df.rows) > 0 =>
                   /\ calculate_kpis(DropColumn(filtered_df, c))
                         = KpisWithout(kpis, c)
                   /\ With(create_visualizations(DropColumn(filtered_df, c)),
                           LAMBDA cv : /\ cv.raised = "none"
                                       /\ cv.titles = TitlesWithout(charts.titles, c))

\* a complete run on a file that lacks a column: its filter, metric and
\* charts are missing, the others are there
C5_Witness ==
    /\ Filtered
    /\ "review_score" \notin df.columns
    /\ Len(filtered_df.rows) > 0
    /\ "review" \notin widgets
    /\ kpis["avg_rating"] = Zero
    /\ kpis["total_revenue"] # Zero
    /\ "Avg Review Score by Payment Type" \notin charts.titles
    /\ "Payment Method Distribution" \in charts.titles
    /\ "footer" \in rendered

ErrorDisplay == {"load_error", "unable_error"}

\* the file was missing when the session loaded it, and a run has happened
NotFoundRun == rendered # {} /\ cache.filled /\ ~cache.df.loaded

\* C6 as stated: in a run on a missing file nothing but the error display
\* is rendered, nothing is filtered, computed or offered, and the file is
\* read at most once.
C6_OnlyErrorDisplay ==
    NotFoundRun =>
        /\ rendered \subseteq ErrorDisplay
        /\ widgets = {} /\ filtered_df = NoTable /\ kpis = NoKpis
        /\ charts = NoCharts /\ exports = NoExports
        /\ read_csv_calls <= 1

\* C6 as amended: the page header, rendered before the load, is the only
\* other element of such a run.
C6_HeaderAndErrorDisplay ==
    NotFoundRun =>
        /\ rendered = {"header"} \cup ErrorDisplay
        /\ widgets = {} /\ filtered_df = NoTable /\ kpis = NoKpis
        /\ charts = NoCharts /\ exports = NoExports
        /\ read_csv_calls <= 1

C6_Witness == NotFoundRun /\ ~file.exists /\ "unable_error" \in rendered

\* C8: the loaded table stays the file's table through every run, and the
\* full export and the reported total are those of the file.
C8_SourceUnchanged ==
    LoadedRun =>
        /\ df.columns = file.columns /\ df.rows = file.rows
        /\ cache.df.columns = file.columns /\ cache.df.rows = file.rows
        /\ "dl_full" \in rendered =>
              exports.full = file.rows /\ exports.total = Len(file.rows)

\* a run whose filter dropped rows, with the full export on the page
C8_Witness ==
    /\ Filtered
    /\ Len(filtered_df.rows) < Len(file.rows)
    /\ "dl_full" \in rendered
    /\ read_csv_calls = 0

\* C9: in every run with the dataset loaded, the charts and the filtered
\* download are there exactly when the filtered table has a row, the
\* warning is there when it has none, and the KPIs, the full download and
\* the dataset information are always there.
C9_PageParts ==
    LoadedRun =>
        /\ "charts_section" \in rendered <=> Len(filtered_df.rows) > 0
        /\ "dl_filtered" \in rendered <=> Len(filtered_df.rows) > 0
        /\ Len(filtered_df.rows) = 0 => "no_data_warning" \in rendered
        /\ {"kpis", "dl_full", "dataset_info"} \subseteq rendered

\* C10: a list that contains 'All' filters nothing, whatever else it holds.
C10_AllSwitchesOff ==
    Filtered =>
        /\ "All" \in sel.months =>
              filtered_df.rows = FilterRows(df, [sel EXCEPT !.months = {"All"}]).rows
        /\ "All" \in sel.category =>
              filtered_df.rows = FilterRows(df, [sel EXCEPT !.category = {"All"}]).rows
        /\ "All" \in sel.states =>
              filtered_df.rows = FilterRows(df, [sel EXCEPT !.states = {"All"}]).rows

\* 'All' chosen together with one of two states: the other state's rows stay
C10_Witness ==
    /\ Filtered
    /\ "customer_state" \in df.columns
    /\ "All" \in sel.states
    /\ sel.states # {"All"}
    /\ \E i \in 1..Len(filtered_df.rows) :
          filtered_df.rows[i]["customer_state"] \notin sel.states

\* a horizontal top-N bar chart of the groups G: as many bars as there are
\* groups, up to N; bars in ascending order; no group left out is larger
\* than a group shown
ShowsLargest(bars, G, n) ==
    /\ Len(bars) = (IF Cardinality(G) < n THEN Cardinality(G) ELSE n)
    /\ Range(bars) \subseteq G
    /\ \A i \in 1..Len(bars) : \A j \in i..Len(bars) : bars[i][2] <= bars[j][2]
    /\ \A g \in G \ Range(bars) : \A b \in Range(bars) : g[2] <= b[2]

\* C7: 'Top 10 States by Sales' and 'Top 10 Product Categories by Count'
\* show the 10 groups with the largest value (all groups when there are
\* fewer), in ascending order.
C7_TopNShowsLargest ==
    /\ "Top 10 States by Sales" \in charts.titles =>
          ShowsLargest(charts.state_sales,
                       GroupSum(filtered_df, "customer_state", "total_order_value"),
                       TopN)
    /\ "Top 10 Product Categories by Count" \in charts.titles =>
          ShowsLargest(charts.top_categories,
                       ValueCounts(filtered_df, "product_category_name_english"),
                       TopN)

\* the categories chart alone
C7_CategoriesShowLargest ==
    "Top 10 Product Categories by Count" \in charts.titles =>
        ShowsLargest(charts.top_categories,
                     ValueCounts(filtered_df, "product_category_name_english"),
                     TopN)

====
